---- MODULE Spec2Model ----
(***************************************************************************)
(* Model of the PrintBridge native module (the Printer Connection Manager) *)
(* of InstaLabel: the Kotlin class listed in INSTALLATION.md.              *)
(*                                                                         *)
(* React methods run one at a time on the native-modules thread, so each   *)
(* handler is one action.  The Classic connect and the Classic write run   *)
(* on threads the handler starts (one action per step of a thread that     *)
(* touches shared state), and the GATT callbacks are delivered by the       *)
(* Bluetooth stack (one action per callback).                              *)
(*                                                                         *)
(* Sockets and GATT clients are kept while something can still happen to   *)
(* them or someone still refers to them: a closed or failed one that no    *)
(* field and no thread refers to is dropped from the state.  A promise is  *)
(* kept by the thread that will settle it; the promise settled last is in  *)
(* the variable last.                                                      *)
(***************************************************************************)
EXTENDS Integers, Sequences, FiniteSets

\* Number of React-method calls made in one behaviour.
MaxCalls == 3

\* A null reference.
Null == 0

ConnectionType == {"CLASSIC", "BLE", "DUAL", "UNKNOWN"}

\* Device addresses a caller can pass; "x" is not a well-formed address.
Address == {"c", "b", "d", "u", "x"}

ValidAddress(a) == a # "x"

\* BluetoothDevice.type as the platform reports it for each address at first.
PairedDeviceType(a) ==
    CASE a = "c" -> "DEVICE_TYPE_CLASSIC"
      [] a = "b" -> "DEVICE_TYPE_LE"
      [] a = "d" -> "DEVICE_TYPE_DUAL"
      [] OTHER   -> "DEVICE_TYPE_UNKNOWN"

\* The three send methods; their bodies are the same.
PrintMethods == {"printTSPL", "printESC", "printZPL"}

VARIABLES
    currentConnectionType,   \* ConnectionType
    classicSocket,           \* id of a socket, or Null
    classicOutputStream,     \* id of the socket whose stream it is, or Null
    bleGatt,                 \* id of a GATT client, or Null
    bleWriteCharacteristic,  \* id of the GATT client the characteristic is of, or Null
    bleConnectionState,      \* "STATE_CONNECTED" or "STATE_DISCONNECTED"
    deviceTechnologyCache,   \* Address -> ConnectionType or "none"
    adapterPresent,          \* bluetoothAdapter # null
    bleSupported,            \* Build.VERSION.SDK_INT >= JELLY_BEAN_MR2
    sockets,                 \* id -> [dev, st]: the BluetoothSockets created
    gatts,                   \* id -> [dev, link, svc]: the open BluetoothGatts
    threads,                 \* the running Thread { ... } bodies
    last,                    \* the promise settled last
    calls,                   \* number of React-method calls so far
    connectCalled,           \* a connect method has been called before
    reportedType,            \* Address -> BluetoothDevice.type as reported now
    typeChangedAt,           \* calls made when a reported type last changed, or -1
    deviceList,              \* the technologies in the device list resolved last
    established              \* technology of the latest connect that resolved,
                             \* "none" after a later disconnect call or drop

\* The caller side: PrinterContext.connectToDevice (PrinterContext.tsx 195-237).
VARIABLES
    isConnecting,            \* React state isConnecting
    connectedDevice,         \* React state connectedDevice: a device or NoDevice
    device,                  \* the argument of the running connectToDevice call
    attempt,                 \* the loop variable of the retry loop
    lastError,               \* the local lastError
    connectPc,               \* where the async function stands: "idle",
                             \* "awaitConnect" or "pause"
    connectOutcome,          \* how the last connectToDevice promise settled
    nativeInFlight,          \* native connectDual promises not yet settled
    nativeResult,            \* how the last native connectDual promise settled
    attemptsMade,            \* native connectDual calls made by the running call
    pauseElapsed,            \* ms since the retry timer was armed
    requests,                \* connectToDevice calls made so far
    refreshPc,               \* where refreshConnectionStatus stands: "idle" or
                             \* "awaitStatus"
    statusInFlight,          \* native getConnectionStatus promises not yet settled
    statusOutcome,           \* how the last attempt to get the status went
    printBridge              \* NativeModules.PrintBridge is there

\* refreshConnectionStatus (PrinterContext.tsx 136-149)
refresh == <<refreshPc, statusInFlight, statusOutcome, printBridge>>

caller == <<isConnecting, connectedDevice, device, attempt, lastError, connectPc,
            connectOutcome, nativeInFlight, nativeResult, attemptsMade,
            pauseElapsed, requests, refresh>>

\* The print-queue loop: printLabels of LabelsPage (HistoryPage.tsx 1010-1136)
\* and of PPDSPage (PPDsPage.tsx 358-460).
VARIABLES
    page,                    \* which page's printLabels runs: "Labels" or "PPDS"
    printQueue,              \* React state printQueue: items [type, quantity]
    isPrinting,              \* React state isPrinting
    itemIdx,                 \* position of the outer loop in printQueue
    copyIdx,                 \* the inner loop variable i
    printPc,                 \* where printLabels stands: "idle", "awaitPrint",
                             \* "awaitLog" or "delay"
    printsInFlight,          \* native printTSPL promises not yet settled
    printResult,             \* how the last native printTSPL promise settled
    delayElapsed,            \* ms since the delay timer was armed
    sent,                    \* label sends started by this run
    runOutcome               \* "none", "refused", "success" or "failed"

queue == <<page, printQueue, isPrinting, itemIdx, copyIdx, printPc, printsInFlight,
           printResult, delayElapsed, sent, runOutcome>>

\* The label command generator: the pure functions of tsplUtils.ts and of the
\* protocol module (generateComplexLabel, generateESCCommands, ...).
VARIABLES
    genCall,                 \* the last generator call: [fn, arg]
    genResult,               \* what it returned
    genRepeat,               \* what a later call with the same arguments returned
    today                    \* the date the device clock shows

generator == <<genCall, genResult, genRepeat, today>>

\* Everything outside the native module, with the list it was handed last.
app == <<caller, queue, generator, deviceList>>

vars == <<currentConnectionType, classicSocket, classicOutputStream, bleGatt,
          bleWriteCharacteristic, bleConnectionState, deviceTechnologyCache,
          adapterPresent, bleSupported, reportedType, typeChangedAt, sockets,
          gatts, threads,
          last, calls, connectCalled, established, app>>

mgr == <<currentConnectionType, classicSocket, classicOutputStream, bleGatt,
         bleWriteCharacteristic, bleConnectionState>>

platform == <<adapterPresent, bleSupported, reportedType, typeChangedAt>>

\* device.type
DeviceType(a) == reportedType[a]

\* adapter.bondedDevices
BondedDevices == {"c", "b", "d", "u"}

\* No device list has been resolved.
NoList == [a \in BondedDevices |-> "none"]

----------------------------------------------------------------------------
\* BluetoothSocket.isConnected
IsConnected(s) == s \in DOMAIN sockets /\ sockets[s].st = "open"

\* getConnectionStatus: the map the method resolves with.
GetConnectionStatus ==
    [type             |-> currentConnectionType,
     connected        |-> currentConnectionType # "UNKNOWN",
     classicConnected |-> (classicSocket # Null /\ IsConnected(classicSocket)),
     bleConnected     |-> (bleConnectionState = "STATE_CONNECTED")]

\* What a call finds when it starts; a thread keeps it with its promise.
Snapshot ==
    [type   |-> currentConnectionType,
     sock   |-> classicSocket # Null,
     stream |-> classicOutputStream # Null,
     gatt   |-> bleGatt # Null,
     chr    |-> bleWriteCharacteristic # Null]

\* A Promise handed to a React method; op is "connect", "disconnect", "print"
\* or "status".  n counts its settlements, wrote is the transport written to.
NewPromise(op) ==
    [op |-> op, st |-> "pending", code |-> "", n |-> 0, wrote |-> "none"]

\* promise.resolve / promise.reject: the first settlement decides.
Settle(pr, st, code) ==
    [pr EXCEPT !.st = IF pr.st = "pending" THEN st ELSE @,
               !.code = IF pr.st = "pending" THEN code ELSE @,
               !.n = @ + 1]

Resolve(pr) == Settle(pr, "resolved", "")
Reject(pr, code) == Settle(pr, "rejected", code)

\* getDeviceTechnology: the cached technology, else the one of device.type.
TechnologyOfType(t) ==
    CASE t = "DEVICE_TYPE_CLASSIC" -> "CLASSIC"
      [] t = "DEVICE_TYPE_LE"      -> "BLE"
      [] t = "DEVICE_TYPE_DUAL"    -> "DUAL"
      [] OTHER                     -> "UNKNOWN"

\* Mutant: the technology is detected anew on every call.
GetDeviceTechnologyUncached(a) == TechnologyOfType(DeviceType(a))

GetDeviceTechnology(a) ==
    IF deviceTechnologyCache[a] # "none"
    THEN deviceTechnologyCache[a]
    ELSE TechnologyOfType(DeviceType(a))

\* The id a newly created socket or GATT client gets: the least one free.
FreshId(f) ==
    CHOOSE i \in 1..(Cardinality(DOMAIN f) + 1) :
        /\ i \notin DOMAIN f
        /\ \A j \in 1..(Cardinality(DOMAIN f) + 1) : j \notin DOMAIN f => i <= j

\* f with id i bound to r.
With(f, i, r) == [j \in DOMAIN f \cup {i} |-> IF j = i THEN r ELSE f[j]]

\* The sockets still of interest: connecting or open, or referred to.
KeepSockets(socks, refs) ==
    [s \in {i \in DOMAIN socks : socks[i].st \in {"connecting", "open"} \/ i \in refs}
       |-> socks[s]]

\* The sockets a field or a thread's local variable refers to.
SocketRefs ==
    ({classicSocket, classicOutputStream} \cup {t.sock : t \in threads}) \ {Null}

CanCall == calls < MaxCalls

NoPromise == NewPromise("none")

----------------------------------------------------------------------------
NoDevice == "none"

\* No connectToDevice call of the caller is running.
CallerIdle ==
    /\ isConnecting = FALSE
    /\ device = NoDevice
    /\ attempt = 0
    /\ lastError = "none"
    /\ connectPc = "idle"
    /\ connectOutcome = "none"
    /\ nativeInFlight = 0
    /\ nativeResult = "none"
    /\ attemptsMade = 0
    /\ pauseElapsed = 0
    /\ requests = 0
    /\ refreshPc = "idle"
    /\ statusInFlight = 0
    /\ statusOutcome = "none"

\* No connectToDevice call of the caller has run.
CallerInit ==
    /\ CallerIdle
    /\ connectedDevice = NoDevice
    /\ printBridge = TRUE

\* No printLabels call is running.
QueueIdle ==
    /\ isPrinting = FALSE
    /\ itemIdx = 0
    /\ copyIdx = 0
    /\ printPc = "idle"
    /\ printsInFlight = 0
    /\ printResult = "none"
    /\ delayElapsed = 0
    /\ sent = 0
    /\ runOutcome = "none"

QueueInit ==
    /\ QueueIdle
    /\ page = "Labels"
    /\ printQueue = <<>>

\* The dates the device clock can show.
Days == {[y |-> 2026, m |-> 11, d |-> 1], [y |-> 2026, m |-> 11, d |-> 2]}

NotCalled == [done |-> FALSE]

Returned(v) == [done |-> TRUE, value |-> v]

\* No generator function has been called.
GeneratorInit ==
    /\ genCall = [fn |-> "none"]
    /\ genResult = NotCalled
    /\ genRepeat = NotCalled
    /\ today = [y |-> 2026, m |-> 11, d |-> 1]

\* The PrintBridge object after construction.
ManagerInit ==
    /\ currentConnectionType = "UNKNOWN"
    /\ classicSocket = Null
    /\ classicOutputStream = Null
    /\ bleGatt = Null
    /\ bleWriteCharacteristic = Null
    /\ bleConnectionState = "STATE_DISCONNECTED"
    /\ deviceTechnologyCache = [a \in Address |-> "none"]
    /\ adapterPresent \in BOOLEAN
    /\ bleSupported \in BOOLEAN
    /\ reportedType = [a \in Address |-> PairedDeviceType(a)]
    /\ typeChangedAt = -1
    /\ deviceList = NoList
    /\ sockets = <<>>
    /\ gatts = <<>>
    /\ threads = {}
    /\ last = NoPromise
    /\ calls = 0
    /\ connectCalled = FALSE
    /\ established = "none"

Init ==
    /\ ManagerInit
    /\ CallerInit
    /\ QueueInit
    /\ GeneratorInit

----------------------------------------------------------------------------
\* connectClassic: starts the thread, which creates the socket and blocks in
\* socket.connect().
ConnectClassic(a, pr, tech) ==
    LET s == FreshId(sockets)
    IN  /\ sockets' = With(sockets, s, [dev |-> a, st |-> "connecting"])
        /\ threads' = threads \cup {[id |-> calls + 1, kind |-> "connect", pr |-> pr,
                                     at |-> Snapshot, tech |-> tech,
                                     pc |-> "connecting", sock |-> s]}
        /\ UNCHANGED <<bleGatt, gatts, established, last>>

\* connectBLE when connectGatt returns: rejects on an old SDK, else keeps the
\* new GATT client and resolves at once.
ConnectBLE(a, pr, tech) ==
    IF ~bleSupported
    THEN /\ last' = Reject(pr, "BLE_ERROR")
         /\ UNCHANGED <<bleGatt, gatts, established, threads, sockets>>
    ELSE LET g == FreshId(gatts)
         IN  /\ gatts' = With(gatts, g, [dev |-> a, link |-> "connecting",
                                         svc |-> "none"])
             /\ bleGatt' = g
             /\ last' = Resolve(pr)
             /\ established' = tech
             /\ UNCHANGED <<threads, sockets>>

\* connectGatt is reached and may raise (e.g. a SecurityException).
ReachesConnectGatt(a) ==
    /\ adapterPresent
    /\ ValidAddress(a)
    /\ GetDeviceTechnology(a) \in {"BLE", "DUAL"}
    /\ bleSupported

\* Mutant: the DUAL branch goes straight to Classic.
ConnectDualDeviceClassicOnly(a, pr, tech, gattRaises) ==
    ConnectClassic(a, pr, tech)

\* The DUAL branch: BLE first, Classic if connectBLE raised.
ConnectDualDevice(a, pr, tech, gattRaises) ==
    IF gattRaises
    THEN ConnectClassic(a, pr, tech)
    ELSE ConnectBLE(a, pr, tech)

\* Mutant: the UNKNOWN branch tries the dual-mode connect instead of rejecting.
ConnectBodyUnknownTriesDual(a, gattRaises) ==
    LET pr   == NewPromise("connect")
        tech == GetDeviceTechnology(a)
    IN  IF ~adapterPresent \/ ~ValidAddress(a)
        THEN /\ last' = Reject(pr, "CONNECTION_ERROR")
             /\ UNCHANGED <<currentConnectionType, deviceTechnologyCache,
                            bleGatt, gatts, established, threads, sockets>>
        ELSE /\ deviceTechnologyCache' = [deviceTechnologyCache EXCEPT ![a] = tech]
             /\ currentConnectionType' = tech
             /\ CASE tech = "CLASSIC" -> ConnectClassic(a, pr, tech)
                  [] tech = "BLE" ->
                        IF gattRaises
                        THEN /\ last' = Reject(pr, "CONNECTION_ERROR")
                             /\ UNCHANGED <<bleGatt, gatts, established, threads,
                                            sockets>>
                        ELSE ConnectBLE(a, pr, tech)
                  [] OTHER -> ConnectDualDevice(a, pr, tech, gattRaises)

\* The body shared by the React methods connectToDevice and connectDual.
ConnectBody(a, gattRaises) ==
    LET pr   == NewPromise("connect")
        tech == GetDeviceTechnology(a)
    IN  IF ~adapterPresent \/ ~ValidAddress(a)
        THEN /\ last' = Reject(pr, "CONNECTION_ERROR")
             /\ UNCHANGED <<currentConnectionType, deviceTechnologyCache,
                            bleGatt, gatts, established, threads, sockets>>
        ELSE /\ deviceTechnologyCache' = [deviceTechnologyCache EXCEPT ![a] = tech]
             /\ currentConnectionType' = tech
             /\ CASE tech = "CLASSIC" -> ConnectClassic(a, pr, tech)
                  [] tech = "BLE" ->
                        IF gattRaises
                        THEN /\ last' = Reject(pr, "CONNECTION_ERROR")
                             /\ UNCHANGED <<bleGatt, gatts, established, threads,
                                            sockets>>
                        ELSE ConnectBLE(a, pr, tech)
                  [] tech = "DUAL" -> ConnectDualDevice(a, pr, tech, gattRaises)
                  [] OTHER ->
                        /\ last' = Reject(pr, "CONNECTION_ERROR")
                        /\ UNCHANGED <<bleGatt, gatts, established, threads,
                                       sockets>>

ConnectToDevice(a, gattRaises) ==
    /\ CanCall
    /\ gattRaises => ReachesConnectGatt(a)
    /\ calls' = calls + 1
    /\ connectCalled' = TRUE
    /\ ConnectBody(a, gattRaises)
    /\ UNCHANGED <<classicSocket, classicOutputStream, bleWriteCharacteristic,
                   bleConnectionState, platform, app>>

ConnectDual(a, gattRaises) ==
    /\ CanCall
    /\ gattRaises => ReachesConnectGatt(a)
    /\ calls' = calls + 1
    /\ connectCalled' = TRUE
    /\ ConnectBody(a, gattRaises)
    /\ UNCHANGED <<classicSocket, classicOutputStream, bleWriteCharacteristic,
                   bleConnectionState, platform, app>>

\* The connectClassic thread: socket.connect() returns and the thread stores
\* the socket, or it raises and the thread rejects.
ClassicThreadConnect(t, ok) ==
    /\ t \in threads /\ t.kind = "connect" /\ t.pc = "connecting"
    /\ UNCHANGED <<currentConnectionType, classicOutputStream, bleGatt,
                   bleWriteCharacteristic, bleConnectionState,
                   deviceTechnologyCache, platform, app, gatts, calls, connectCalled,
                   established>>
    /\ IF ok
       THEN /\ classicSocket' = t.sock
            /\ threads' = (threads \ {t}) \cup {[t EXCEPT !.pc = "stored"]}
            /\ UNCHANGED last
            /\ sockets' = KeepSockets([sockets EXCEPT ![t.sock].st = "open"],
                                      SocketRefs')
       ELSE /\ threads' = threads \ {t}
            /\ last' = Reject(t.pr, "CLASSIC_CONNECTION_ERROR")
            /\ UNCHANGED classicSocket
            /\ sockets' = KeepSockets([sockets EXCEPT ![t.sock].st = "failed"],
                                      SocketRefs')

\* Mutant: the thread ends without settling its promise.
ClassicThreadStoreStreamSilently(t) ==
    /\ t \in threads /\ t.kind = "connect" /\ t.pc = "stored"
    /\ classicOutputStream' = t.sock
    /\ established' = t.tech
    /\ threads' = threads \ {t}
    /\ UNCHANGED <<currentConnectionType, classicSocket, bleGatt,
                   bleWriteCharacteristic, bleConnectionState,
                   deviceTechnologyCache, platform, app, gatts, calls, connectCalled,
                   last>>
    /\ sockets' = KeepSockets(sockets, SocketRefs')

\* classicOutputStream = socket.outputStream; promise.resolve(true)
ClassicThreadStoreStream(t) ==
    /\ t \in threads /\ t.kind = "connect" /\ t.pc = "stored"
    /\ classicOutputStream' = t.sock
    /\ last' = Resolve(t.pr)
    /\ established' = t.tech
    /\ threads' = threads \ {t}
    /\ UNCHANGED <<currentConnectionType, classicSocket, bleGatt,
                   bleWriteCharacteristic, bleConnectionState,
                   deviceTechnologyCache, platform, app, gatts, calls, connectCalled>>
    /\ sockets' = KeepSockets(sockets, SocketRefs')

----------------------------------------------------------------------------
\* Mutant: close is called with !! and so raises on a null field as well.
CloseRaisesOnNull(ref) == TRUE

\* x?.close() does nothing on null; a close of a held handle may raise.
CloseCanRaise(ref) == ref # Null

\* socks after close() of every socket of ids (closing a socket's stream
\* closes the socket).
CloseSockets(socks, ids) ==
    [s \in DOMAIN socks |->
        IF s \in ids THEN [socks[s] EXCEPT !.st = "closed"] ELSE socks[s]]

\* disconnect: closes stream, socket and GATT client in that order and clears
\* the fields; the first close that raises jumps to the catch block, which
\* rejects.  raises is "none" or the close call that raises.
Disconnect(raises) ==
    LET pr == NewPromise("disconnect")
        held == {classicOutputStream, classicSocket} \ {Null}
    IN  /\ CanCall
        /\ raises = "stream" => CloseCanRaise(classicOutputStream)
        /\ raises = "socket" => CloseCanRaise(classicSocket)
        /\ raises = "gatt" => CloseCanRaise(bleGatt)
        /\ calls' = calls + 1
        /\ established' = "none"
        /\ UNCHANGED <<deviceTechnologyCache, platform, app, threads, connectCalled>>
        /\ CASE raises = "stream" ->
                  /\ last' = Reject(pr, "DISCONNECT_ERROR")
                  /\ UNCHANGED <<mgr, sockets, gatts>>
             [] raises = "socket" ->
                  /\ sockets' = CloseSockets(sockets, {classicOutputStream} \ {Null})
                  /\ last' = Reject(pr, "DISCONNECT_ERROR")
                  /\ UNCHANGED <<mgr, gatts>>
             [] raises = "gatt" ->
                  /\ classicOutputStream' = Null
                  /\ classicSocket' = Null
                  /\ last' = Reject(pr, "DISCONNECT_ERROR")
                  /\ UNCHANGED <<currentConnectionType, bleGatt,
                                 bleWriteCharacteristic, bleConnectionState, gatts>>
                  /\ sockets' = KeepSockets(CloseSockets(sockets, held), SocketRefs')
             [] OTHER ->
                  /\ gatts' = [g \in DOMAIN gatts \ {bleGatt} |-> gatts[g]]
                  /\ classicOutputStream' = Null
                  /\ classicSocket' = Null
                  /\ bleGatt' = Null
                  /\ bleWriteCharacteristic' = Null
                  /\ currentConnectionType' = "UNKNOWN"
                  /\ last' = Resolve(pr)
                  /\ UNCHANGED bleConnectionState
                  /\ sockets' = KeepSockets(CloseSockets(sockets, held), SocketRefs')

----------------------------------------------------------------------------
\* Mutant: the when falls through to printClassic for UNKNOWN.
PrintRouteDefaultClassic(type) ==
    CASE type = "BLE"     -> "printBLE"
      [] type = "DUAL"    -> "printDual"
      [] OTHER            -> "printClassic"

\* The when (currentConnectionType) of printTSPL / printESC / printZPL.
PrintRoute(type) ==
    CASE type = "CLASSIC" -> "printClassic"
      [] type = "BLE"     -> "printBLE"
      [] type = "DUAL"    -> "printDual"
      [] OTHER            -> "reject"

\* The when (currentConnectionType) of printDual.
PrintDualRoute(type) ==
    CASE type = "BLE"     -> "printBLE"
      [] type = "CLASSIC" -> "printClassic"
      [] OTHER            -> "reject"

\* printClassic: starts the thread that writes.
PrintClassic(pr) ==
    /\ threads' = threads \cup {[id |-> calls + 1, kind |-> "print", pr |-> pr,
                                 at |-> Snapshot, tech |-> "",
                                 pc |-> "write", sock |-> Null]}
    /\ UNCHANGED last

\* bleGatt?.writeCharacteristic(bleWriteCharacteristic) puts the value on the
\* air only through an open, connected client of the characteristic's device.
BleWriteReaches ==
    /\ bleGatt # Null
    /\ bleWriteCharacteristic # Null
    /\ gatts[bleGatt].link = "connected"
    /\ gatts[bleGatt].dev = gatts[bleWriteCharacteristic].dev

\* printBLE: rejects without a characteristic; else writes and resolves,
\* whatever writeCharacteristic returned, unless the write raises.
PrintBLE(pr, writeRaises) ==
    /\ last' =
         IF bleWriteCharacteristic = Null
         THEN Reject(pr, "BLE_PRINT_ERROR")
         ELSE IF writeRaises
         THEN Reject(pr, "BLE_PRINT_ERROR")
         ELSE Resolve([pr EXCEPT !.wrote = IF BleWriteReaches THEN "ble" ELSE "none"])
    /\ UNCHANGED threads

\* printDual
PrintDual(pr, writeRaises) ==
    LET r == PrintDualRoute(currentConnectionType)
    IN  CASE r = "printBLE"     -> PrintBLE(pr, writeRaises)
          [] r = "printClassic" -> PrintClassic(pr)
          [] OTHER -> /\ last' = Reject(pr, "PRINT_ERROR")
                      /\ UNCHANGED threads

\* The BLE write is reached with a characteristic, so it may raise.
ReachesBleWrite ==
    /\ bleWriteCharacteristic # Null
    /\ \/ PrintRoute(currentConnectionType) = "printBLE"
       \/ /\ PrintRoute(currentConnectionType) = "printDual"
          /\ PrintDualRoute(currentConnectionType) = "printBLE"

\* printTSPL, printESC and printZPL have the same body.
PrintCommand(method, writeRaises) ==
    LET pr == NewPromise("print")
        r  == PrintRoute(currentConnectionType)
    IN  /\ CanCall
        /\ method \in PrintMethods
        /\ writeRaises => ReachesBleWrite
        /\ calls' = calls + 1
        /\ CASE r = "printClassic" -> PrintClassic(pr)
             [] r = "printBLE"     -> PrintBLE(pr, writeRaises)
             [] r = "printDual"    -> PrintDual(pr, writeRaises)
             [] OTHER -> /\ last' = Reject(pr, "PRINT_ERROR")
                         /\ UNCHANGED threads
        /\ UNCHANGED <<mgr, deviceTechnologyCache, platform, app, sockets, gatts,
                       connectCalled, established>>

\* The printClassic thread: classicOutputStream?.write and ?.flush, then
\* resolve; an IOException (closed socket, lost link) rejects.
PrintThreadRun(t, ioError) ==
    /\ t \in threads /\ t.kind = "print"
    /\ ioError => classicOutputStream # Null
    /\ threads' = threads \ {t}
    /\ IF classicOutputStream = Null
       THEN /\ last' = Resolve(t.pr)
            /\ UNCHANGED established
       ELSE IF ioError \/ ~IsConnected(classicOutputStream)
       THEN /\ last' = Reject(t.pr, "CLASSIC_PRINT_ERROR")
            /\ established' = "none"
       ELSE /\ last' = Resolve([t.pr EXCEPT !.wrote = "classic"])
            /\ UNCHANGED established
    /\ UNCHANGED <<mgr, deviceTechnologyCache, platform, app, sockets, gatts, calls,
                   connectCalled>>

\* getConnectionStatus: resolves with GetConnectionStatus.
GetConnectionStatusCall ==
    /\ CanCall
    /\ calls' = calls + 1
    /\ last' = Resolve(NewPromise("status"))
    /\ UNCHANGED <<mgr, deviceTechnologyCache, platform, app, sockets, gatts, threads,
                   connectCalled, established>>

----------------------------------------------------------------------------
\* bleGattCallback.onConnectionStateChange(gatt, status, STATE_CONNECTED)
OnConnected(g) ==
    /\ g \in DOMAIN gatts
    /\ gatts[g].link = "connecting"
    /\ bleConnectionState' = "STATE_CONNECTED"
    /\ gatts' = [gatts EXCEPT ![g].link = "connected", ![g].svc = "requested"]
    /\ UNCHANGED <<currentConnectionType, classicSocket, classicOutputStream,
                   bleGatt, bleWriteCharacteristic, deviceTechnologyCache,
                   platform, app, sockets, threads, last, calls, connectCalled,
                   established>>

\* bleGattCallback.onConnectionStateChange(gatt, status, STATE_DISCONNECTED):
\* the connection attempt failed or the link dropped.
OnDisconnected(g) ==
    /\ g \in DOMAIN gatts
    /\ gatts[g].link \in {"connecting", "connected"}
    /\ bleConnectionState' = "STATE_DISCONNECTED"
    /\ currentConnectionType' = "UNKNOWN"
    /\ gatts' = [gatts EXCEPT ![g].link = "disconnected", ![g].svc = "none"]
    /\ established' = "none"
    /\ UNCHANGED <<classicSocket, classicOutputStream, bleGatt,
                   bleWriteCharacteristic, deviceTechnologyCache, platform, app,
                   sockets, threads, last, calls, connectCalled>>

\* The characteristic onServicesDiscovered's loops end with.  layout says where
\* the device's first writable characteristic is: in the "first" service, in a
\* "later" service, or "none".  The outer loop stops after any service once
\* bleWriteCharacteristic is non-null, also when it already was.
FoundCharacteristic(g, layout) ==
    CASE layout = "first" -> g
      [] layout = "later" -> IF bleWriteCharacteristic # Null
                             THEN bleWriteCharacteristic ELSE g
      [] OTHER -> bleWriteCharacteristic

\* bleGattCallback.onServicesDiscovered(gatt, status)
OnServicesDiscovered(g, success, layout) ==
    /\ g \in DOMAIN gatts
    /\ gatts[g].svc = "requested"
    /\ ~success => layout = "none"
    /\ gatts' = [gatts EXCEPT ![g].svc = "done"]
    /\ bleWriteCharacteristic' =
          IF success THEN FoundCharacteristic(g, layout)
          ELSE bleWriteCharacteristic
    /\ UNCHANGED <<currentConnectionType, classicSocket, classicOutputStream,
                   bleGatt, bleConnectionState, deviceTechnologyCache, platform, app,
                   sockets, threads, last, calls, connectCalled, established>>

----------------------------------------------------------------------------
Next ==
    \/ \E a \in Address, r \in BOOLEAN : ConnectToDevice(a, r)
    \/ \E a \in Address, r \in BOOLEAN : ConnectDual(a, r)
    \/ \E r \in {"none", "stream", "socket", "gatt"} : Disconnect(r)
    \/ \E m \in PrintMethods, r \in BOOLEAN : PrintCommand(m, r)
    \/ GetConnectionStatusCall
    \/ \E t \in threads, ok \in BOOLEAN : ClassicThreadConnect(t, ok)
    \/ \E t \in threads : ClassicThreadStoreStream(t)
    \/ \E t \in threads, e \in BOOLEAN : PrintThreadRun(t, e)
    \/ \E g \in DOMAIN gatts : OnConnected(g)
    \/ \E g \in DOMAIN gatts : OnDisconnected(g)
    \/ \E g \in DOMAIN gatts, ok \in BOOLEAN, l \in {"first", "later", "none"} :
          OnServicesDiscovered(g, ok, l)

Spec == Init /\ [][Next]_vars

----------------------------------------------------------------------------
\* Technology detection over time: the two listing methods, which detect the
\* technology of every bonded device, and the platform, whose record of a
\* device's type can change (a device of unknown type gets one once seen).

\* The devices whose type the platform comes to report differently.
Retyped == {"d"}

\* The types it comes to report for them.
NewTypes == {"DEVICE_TYPE_CLASSIC", "DEVICE_TYPE_UNKNOWN"}

\* The forEach over adapter.bondedDevices: getDeviceTechnology(device) caches.
DetectBonded ==
    [a \in Address |->
        IF a \in BondedDevices THEN GetDeviceTechnology(a)
        ELSE deviceTechnologyCache[a]]

\* The body shared by scanForDevices and getPairedDevices. raises is "none",
\* "bonded" (adapter.bondedDevices raises) or "scan" (startBleScan raises).
ListDevices(op, raises) ==
    LET pr == NewPromise(op)
    IN  /\ CanCall
        /\ raises # "none" => adapterPresent
        /\ calls' = calls + 1
        /\ IF ~adapterPresent
           THEN /\ last' = Reject(pr, "BLUETOOTH_ERROR")
                /\ UNCHANGED <<deviceTechnologyCache, deviceList>>
           ELSE IF raises = "bonded"
           THEN /\ last' = Reject(pr, "SCAN_ERROR")
                /\ UNCHANGED <<deviceTechnologyCache, deviceList>>
           ELSE /\ deviceTechnologyCache' = DetectBonded
                /\ IF raises = "scan"
                   THEN /\ last' = Reject(pr, "SCAN_ERROR")
                        /\ UNCHANGED deviceList
                   ELSE /\ last' = Resolve(pr)
                        /\ deviceList' =
                              [a \in BondedDevices |-> GetDeviceTechnology(a)]
        /\ UNCHANGED <<mgr, platform, sockets, gatts, threads, connectCalled,
                       established, caller, queue, generator>>

\* scanForDevices: lists the bonded devices, then starts the BLE scan, whose
\* results are sent as events and touch no field.
ScanForDevices(raises) == ListDevices("scan", raises)

\* getPairedDevices
GetPairedDevices(raises) ==
    /\ raises # "scan"
    /\ ListDevices("paired", raises)

\* The platform comes to report another type for a device, once.
PlatformReportsType(a, ty) ==
    /\ reportedType[a] = PairedDeviceType(a)
    /\ ty # reportedType[a]
    /\ reportedType' = [reportedType EXCEPT ![a] = ty]
    /\ typeChangedAt' = calls
    /\ UNCHANGED <<mgr, deviceTechnologyCache, adapterPresent, bleSupported, sockets,
                   gatts, threads, last, calls, connectCalled, established, app>>

DetectNext ==
    \/ Next
    \/ \E r \in {"none", "bonded", "scan"} : ScanForDevices(r)
    \/ \E r \in {"none", "bonded"} : GetPairedDevices(r)
    \/ \E a \in Retyped, ty \in NewTypes : PlatformReportsType(a, ty)

DetectSpec == Init /\ [][DetectNext]_vars

----------------------------------------------------------------------------
\* The caller: PrinterContext.connectToDevice (PrinterContext.tsx 195-237), an
\* async function. Each action is the code between two awaits. The native
\* connectDual is the environment here: its promise settles either way.

MaxRequests == 2
TickMs == 500
MaxAttempts == 3
RetryDelayMs == 1000

\* The BluetoothDevice objects the caller can pass.
Devices == {"c", "b"}

\* The rejection codes of the native connect.
ConnectErrors == {"CONNECTION_ERROR", "CLASSIC_CONNECTION_ERROR"}

native == <<mgr, deviceTechnologyCache, platform, sockets, gatts, threads, last,
            calls, connectCalled, established, deviceList>>

\* PrintBridge.connectDual(device.address): one more promise is outstanding.
CallNativeConnect(made) ==
    /\ nativeInFlight' = nativeInFlight + 1
    /\ attemptsMade' = made + 1

\* connectToDevice(d) up to its first await: attempt 1 of the loop.
ContextConnectToDevice(d) ==
    /\ connectPc = "idle"
    /\ requests < MaxRequests
    /\ requests' = requests + 1
    /\ isConnecting' = TRUE
    /\ device' = d
    /\ lastError' = "none"
    /\ attempt' = 1
    /\ CallNativeConnect(0)
    /\ connectPc' = "awaitConnect"
    /\ connectOutcome' = "pending"
    /\ UNCHANGED <<connectedDevice, nativeResult, pauseElapsed, native, queue, generator,
                   refresh>>

\* The native module settles the outstanding connectDual promise.
NativeConnectSettles(res) ==
    /\ nativeInFlight > 0
    /\ res = "resolved" => printBridge
    /\ nativeInFlight' = nativeInFlight - 1
    /\ nativeResult' = res
    /\ UNCHANGED <<isConnecting, connectedDevice, device, attempt, lastError,
                   connectPc, connectOutcome, attemptsMade, pauseElapsed, requests,
                   native, queue, generator,
                   refresh>>

\* The await of connectDual returns: success ends the function, a rejection is
\* caught and either arms the retry timer or ends the loop.
ConnectAwaitReturns ==
    /\ connectPc = "awaitConnect"
    /\ nativeInFlight = 0
    /\ IF nativeResult = "resolved"
       THEN /\ connectedDevice' = device
            /\ connectOutcome' = "resolved"
            /\ isConnecting' = FALSE
            /\ connectPc' = "idle"
            /\ UNCHANGED <<attempt, lastError, pauseElapsed>>
       ELSE /\ lastError' = nativeResult
            /\ IF attempt < MaxAttempts
               THEN /\ connectPc' = "pause"
                    /\ pauseElapsed' = 0
                    /\ UNCHANGED <<attempt, connectedDevice, connectOutcome,
                                   isConnecting>>
               ELSE /\ attempt' = attempt + 1
                    /\ connectedDevice' = NoDevice
                    /\ connectOutcome' = "rejected"
                    /\ isConnecting' = FALSE
                    /\ connectPc' = "idle"
                    /\ UNCHANGED pauseElapsed
    /\ UNCHANGED <<device, nativeInFlight, nativeResult, attemptsMade, requests,
                   native, queue, generator,
                   refresh>>

\* Time passes while the retry timer is armed.
Tick ==
    /\ connectPc = "pause"
    /\ pauseElapsed < RetryDelayMs + TickMs
    /\ pauseElapsed' = pauseElapsed + TickMs
    /\ UNCHANGED <<isConnecting, connectedDevice, device, attempt, lastError,
                   connectPc, connectOutcome, nativeInFlight, nativeResult,
                   attemptsMade, requests, native, queue, generator,
                   refresh>>

\* Mutant: the loop goes on without awaiting the timer.
ConnectPauseReturnsAtOnce ==
    /\ connectPc = "pause"
    /\ attempt' = attempt + 1
    /\ CallNativeConnect(attemptsMade)
    /\ connectPc' = "awaitConnect"
    /\ pauseElapsed' = 0
    /\ UNCHANGED <<isConnecting, connectedDevice, device, lastError,
                   connectOutcome, nativeResult, requests, native, queue, generator,
                   refresh>>

\* The timer of setTimeout(resolve, 1000) fires: the loop makes its next attempt.
ConnectPauseReturns ==
    /\ connectPc = "pause"
    /\ pauseElapsed >= RetryDelayMs
    /\ attempt' = attempt + 1
    /\ CallNativeConnect(attemptsMade)
    /\ connectPc' = "awaitConnect"
    /\ pauseElapsed' = 0
    /\ UNCHANGED <<isConnecting, connectedDevice, device, lastError,
                   connectOutcome, nativeResult, requests, native, queue, generator,
                   refresh>>

connecting == <<isConnecting, device, attempt, lastError, connectPc, connectOutcome,
                nativeInFlight, nativeResult, attemptsMade, pauseElapsed, requests>>

\* How an attempt to get the native status can go: the native module is
\* missing, its promise rejects, or it resolves with connected true or false.
StatusOutcomes == {"missing", "rejected", "connected", "notConnected"}

\* What getConnectionStatus (PrinterContext.tsx 258-273) returns: its catch turns
\* the missing module and the rejection into null.
StatusReturned(outcome) ==
    CASE outcome = "connected"    -> [null |-> FALSE, connected |-> TRUE]
      [] outcome = "notConnected" -> [null |-> FALSE, connected |-> FALSE]
      [] OTHER                    -> [null |-> TRUE, connected |-> FALSE]

\* refreshConnectionStatus up to its await: getConnectionStatus calls the native
\* method, or throws and catches at once when the module is missing.
RefreshConnectionStatus ==
    /\ refreshPc = "idle"
    /\ refreshPc' = "awaitStatus"
    /\ IF printBridge
       THEN /\ statusInFlight' = statusInFlight + 1
            /\ statusOutcome' = "none"
       ELSE /\ statusOutcome' = "missing"
            /\ UNCHANGED statusInFlight
    /\ UNCHANGED <<connecting, connectedDevice, printBridge, native, queue, generator>>

\* The native module settles the outstanding getConnectionStatus promise.
NativeStatusSettles(outcome) ==
    /\ statusInFlight > 0
    /\ outcome # "missing"
    /\ statusInFlight' = statusInFlight - 1
    /\ statusOutcome' = outcome
    /\ UNCHANGED <<connecting, connectedDevice, refreshPc, printBridge, native, queue,
                   generator>>

\* The await of getConnectionStatus returns: `if (status && !status.connected)`.
RefreshAwaitReturns ==
    LET status == StatusReturned(statusOutcome)
    IN  /\ refreshPc = "awaitStatus"
        /\ statusInFlight = 0
        /\ refreshPc' = "idle"
        /\ connectedDevice' =
              IF ~status.null /\ ~status.connected THEN NoDevice
              ELSE connectedDevice
        /\ UNCHANGED <<connecting, statusInFlight, statusOutcome, printBridge,
                       native, queue, generator>>

CallerSpecInit ==
    /\ ManagerInit
    /\ adapterPresent
    /\ bleSupported
    /\ CallerIdle
    /\ connectedDevice = NoDevice
    /\ printBridge \in BOOLEAN
    /\ QueueInit
    /\ GeneratorInit

CallerNext ==
    \/ \E d \in Devices : ContextConnectToDevice(d)
    \/ \E res \in {"resolved"} \cup ConnectErrors : NativeConnectSettles(res)
    \/ ConnectAwaitReturns
    \/ Tick
    \/ ConnectPauseReturns
    \/ RefreshConnectionStatus
    \/ \E o \in StatusOutcomes : NativeStatusSettles(o)
    \/ RefreshAwaitReturns

CallerSpec == CallerSpecInit /\ [][CallerNext]_vars

----------------------------------------------------------------------------
\* The print-queue loop printLabels, the same code on both pages except that
\* PPDSPage sends only the items of type "menu". Each action is the code
\* between two awaits. The native printTSPL is the environment here.

MaxQueue == 2
MaxQuantity == 2
PrintDelayMs == 500

ItemTypes == {"menu", "ingredients"}

QueueItems == [type : ItemTypes, quantity : 1..MaxQuantity]

\* The queues the user can have built.
Queues == UNION {[1..n -> QueueItems] : n \in 0..MaxQueue}

\* The inner loop runs for this item: PPDSPage guards it with item.type === 'menu'.
Printable(item) == (page = "PPDS" => item.type = "menu") /\ item.quantity > 0

\* The first item at or after position i whose inner loop sends something.
NextItem(i) ==
    LET js == {j \in i..Len(printQueue) : Printable(printQueue[j])}
    IN  IF js = {} THEN Len(printQueue) + 1
        ELSE CHOOSE j \in js : \A k \in js : j <= k

\* printComplexLabel / printPPDSLabel up to its await of PrintBridge.printTSPL.
SendLabel ==
    /\ isPrinting' = TRUE
    /\ printsInFlight' = printsInFlight + 1
    /\ sent' = sent + 1
    /\ printPc' = "awaitPrint"

\* The outer loop from item j on: the first copy of the next item is sent, or
\* the loop is over and the queue is cleared.
StartItem(j) ==
    IF j > Len(printQueue)
    THEN /\ printQueue' = <<>>
         /\ runOutcome' = "success"
         /\ isPrinting' = FALSE
         /\ printPc' = "idle"
         /\ UNCHANGED <<itemIdx, copyIdx, printsInFlight, sent>>
    ELSE /\ itemIdx' = j
         /\ copyIdx' = 0
         /\ SendLabel
         /\ UNCHANGED <<printQueue, runOutcome>>

\* printLabels up to its first await.
PrintLabels ==
    /\ printPc = "idle"
    /\ runOutcome = "none"
    /\ IF printQueue = <<>> \/ connectedDevice = NoDevice
       THEN /\ runOutcome' = "refused"
            /\ UNCHANGED <<printQueue, isPrinting, itemIdx, copyIdx, printPc,
                           printsInFlight, sent>>
       ELSE StartItem(NextItem(1))
    /\ UNCHANGED <<page, printResult, delayElapsed, native, caller, generator>>

\* The native module settles the outstanding printTSPL promise.
NativePrintSettles(res) ==
    /\ printsInFlight > 0
    /\ printsInFlight' = printsInFlight - 1
    /\ printResult' = res
    /\ UNCHANGED <<page, printQueue, isPrinting, itemIdx, copyIdx, printPc,
                   delayElapsed, sent, runOutcome, native, caller, generator>>

\* Mutant: a rejected send is swallowed and the loop goes on.
PrintAwaitReturnsIgnoringFailure ==
    /\ printPc = "awaitPrint"
    /\ printsInFlight = 0
    /\ isPrinting' = FALSE
    /\ printPc' = "awaitLog"
    /\ UNCHANGED <<page, printQueue, itemIdx, copyIdx, printsInFlight, printResult,
                   delayElapsed, sent, runOutcome, native, caller, generator>>

\* The await of the send returns: the label function's finally clears isPrinting;
\* a rejection ends the run in the catch, a success goes on to logPrintAction.
PrintAwaitReturns ==
    /\ printPc = "awaitPrint"
    /\ printsInFlight = 0
    /\ isPrinting' = FALSE
    /\ IF printResult = "resolved"
       THEN /\ printPc' = "awaitLog"
            /\ UNCHANGED runOutcome
       ELSE /\ printPc' = "idle"
            /\ runOutcome' = "failed"
    /\ UNCHANGED <<page, printQueue, itemIdx, copyIdx, printsInFlight, printResult,
                   delayElapsed, sent, native, caller, generator>>

\* The await of logPrintAction returns (its failure is caught and ignored): the
\* delay timer is armed unless this was the item's last copy.
LogAwaitReturns ==
    /\ printPc = "awaitLog"
    /\ IF copyIdx < printQueue[itemIdx].quantity - 1
       THEN /\ printPc' = "delay"
            /\ delayElapsed' = 0
            /\ UNCHANGED <<printQueue, isPrinting, itemIdx, copyIdx, printsInFlight,
                           sent, runOutcome>>
       ELSE /\ StartItem(NextItem(itemIdx + 1))
            /\ UNCHANGED delayElapsed
    /\ UNCHANGED <<page, printResult, native, caller, generator>>

\* Time passes while the delay timer is armed.
DelayTick ==
    /\ printPc = "delay"
    /\ delayElapsed < PrintDelayMs + TickMs
    /\ delayElapsed' = delayElapsed + TickMs
    /\ UNCHANGED <<page, printQueue, isPrinting, itemIdx, copyIdx, printPc,
                   printsInFlight, printResult, sent, runOutcome, native, caller, generator>>

\* The timer of setTimeout(resolve, 500) fires: the next copy is sent.
DelayReturns ==
    /\ printPc = "delay"
    /\ delayElapsed >= PrintDelayMs
    /\ copyIdx' = copyIdx + 1
    /\ SendLabel
    /\ delayElapsed' = 0
    /\ UNCHANGED <<page, printQueue, itemIdx, printResult, runOutcome, native,
                   caller, generator>>

QueueSpecInit ==
    /\ ManagerInit
    /\ adapterPresent
    /\ bleSupported
    /\ CallerIdle
    /\ printBridge = TRUE
    /\ connectedDevice \in Devices \cup {NoDevice}
    /\ GeneratorInit
    /\ QueueIdle
    /\ page \in {"Labels", "PPDS"}
    /\ printQueue \in Queues

QueueNext ==
    \/ PrintLabels
    \/ \E res \in {"resolved", "PRINT_ERROR"} : NativePrintSettles(res)
    \/ PrintAwaitReturns
    \/ LogAwaitReturns
    \/ DelayTick
    \/ DelayReturns

QueueSpec == QueueSpecInit /\ [][QueueNext]_vars

----------------------------------------------------------------------------
\* The label command generator. A JavaScript value is a record [t, s, n]: its
\* type, its characters when a string, its number (or length when an array).
\* A command string is the sequence of its pieces: each piece is one command
\* line or text segment, and a line break is a piece of its own.

Undefined == [t |-> "undefined", s |-> "", n |-> 0]

Str(s) == [t |-> "string", s |-> s, n |-> 0]

Num(n) == [t |-> "number", s |-> "", n |-> n]

Arr(n) == [t |-> "array", s |-> "", n |-> n]

\* JavaScript truthiness, as `if (v)`, `v || d` and `a && b` use it.
Truthy(v) ==
    CASE v.t = "string" -> v.s # ""
      [] v.t = "number" -> v.n # 0
      [] v.t = "array"  -> TRUE
      [] OTHER          -> FALSE

\* A piece without coordinates: a fixed command line or control sequence.
Cmd(c) == [cmd |-> c, x2 |-> 0, y |-> 0, font |-> "", text |-> ""]

\* The line break "\n".
NL == Cmd("\n")

\* A command that carries a caller's text.
Seg(c, t) == [cmd |-> c, x2 |-> 0, y |-> 0, font |-> "", text |-> t]

\* TEXT x,y,"font",0,1,1,"t"; x2 is twice x, which the header centering halves.
Text(x2, y, f, t) == [cmd |-> "TEXT", x2 |-> x2, y |-> y, font |-> f, text |-> t]

Max(a, b) == IF a >= b THEN a ELSE b

LongHeader == "chicken caesar salad wrap with extra parmesan and croutons"

\* String.prototype.toUpperCase on the header texts used here.
ToUpperCase(s) ==
    CASE s = "soup" -> "SOUP"
      [] s = LongHeader ->
            "CHICKEN CAESAR SALAD WRAP WITH EXTRA PARMESAN AND CROUTONS"
      [] OTHER -> s

\* One optional line of generateComplexLabel: `if (line) tspl += TEXT 10,y,...`.
OptionalLine(line, y) ==
    IF Truthy(line) THEN <<Text(20, y, "2", line.s), NL>> ELSE <<>>

\* Mutant: the initials line is emitted whenever it is set.
InitialsLinePieceAlways(labelData) ==
    IF Truthy(labelData.initialsLine)
    THEN <<Text(20, 110, "2", labelData.initialsLine.s), NL>>
    ELSE <<>>

\* `if (labelData.initialsLine && !labelData.printedLine)`.
InitialsLinePiece(labelData) ==
    IF Truthy(labelData.initialsLine) /\ ~Truthy(labelData.printedLine)
    THEN <<Text(20, 110, "2", labelData.initialsLine.s), NL>>
    ELSE <<>>

\* generateComplexLabel(labelData) with the default config.
generateComplexLabel(labelData) ==
    LET headerText == ToUpperCase(labelData.header.s)
        headerX2   == Max(20, 447 - Len(headerText) * 8)
    IN  <<Cmd("SIZE 56mm,31mm"), NL, Cmd("GAP 2mm,0mm"), NL, Cmd("DIRECTION 0"), NL,
          Cmd("DENSITY 8"), NL, Cmd("CLS"), NL, Cmd("BOX 0,0,447,40,0"), NL>>
        \o (IF Truthy(labelData.header)
            THEN <<Text(headerX2, 25, "3", headerText), NL>>
            ELSE <<>>)
        \o OptionalLine(labelData.expiryLine, 50)
        \o OptionalLine(labelData.printedLine, 70)
        \o OptionalLine(labelData.ingredientsLine, 90)
        \o InitialsLinePiece(labelData)
        \o <<Cmd("PRINT 1"), NL>>

\* A command with a position and a caller's text; x2 is twice x.
Placed(c, x2, y, t) == [cmd |-> c, x2 |-> x2, y |-> y, font |-> "", text |-> t]

\* generate56x31Label(text, barcode, qrCode) with the default config: centerX
\* is 447 / 2, so twice a centred x is 447 less twice the offset.
generate56x31Label(text, barcode, qrCode) ==
    <<Cmd("SIZE 56mm,31mm"), NL, Cmd("GAP 2mm,0mm"), NL, Cmd("DIRECTION 0"), NL,
      Cmd("DENSITY 8"), NL, Cmd("CLS"), NL, Placed("BOX", 10, 5, ""), NL>>
    \o (IF Truthy(text)
        THEN <<Text(Max(20, 447 - Len(text.s) * 8), 20, "3", text.s), NL>>
        ELSE <<>>)
    \o (IF Truthy(barcode)
        THEN <<Placed("BARCODE", 447 - 100, 60, barcode.s), NL>>
        ELSE <<>>)
    \o (IF Truthy(qrCode)
        THEN <<Placed("QRCODE", 447 - 40, 100, qrCode.s), NL>>
        ELSE <<>>)
    \o <<Cmd("PRINT 1"), NL>>

\* An optional string field: left out, empty, or the given text.
Optional(t) == {Undefined, Str(""), Str(t)}

LabelDatas ==
    [header          : {Str(""), Str("soup"), Str(LongHeader)},
     expiryLine      : Optional("Use By: 3/11/2026"),
     printedLine     : Optional("Printed: 1/11/2026"),
     ingredientsLine : Optional("Contains: milk"),
     initialsLine    : Optional("Initials: NG")]

\* Array.prototype.join(sep) over pieces.
Join(pieces, sep) ==
    IF pieces = <<>> THEN <<>>
    ELSE [i \in 1..(2 * Len(pieces) - 1) |->
             IF i % 2 = 1 THEN pieces[(i + 1) \div 2] ELSE sep]

\* `v || d` for a string default d, as text.
OrDefault(v, d) ==
    IF Truthy(v)
    THEN IF v.t = "number" THEN (IF v.n = 5 THEN "5" ELSE "0") ELSE v.s
    ELSE d

\* Date.prototype.toLocaleDateString() of the clock's date.
ToLocaleDateString(day) == IF day.d = 1 THEN "1/11/2026" ELSE "2/11/2026"

\* 'SIZE ' + size.width + ' mm,' + size.height + ' mm'
SizeLine(size) == [Cmd("SIZE mm") EXCEPT !.x2 = size.width, !.y = size.height]

\* `if (data.f) commands.push(...)`.
IfSet(v, pieces) == IF Truthy(v) THEN pieces ELSE <<>>

generateTSPLCommands(data, size) ==
    Join(<<SizeLine(size), Cmd("GAP 2 mm,0"), Cmd("DIRECTION 0"), Cmd("CLS"),
           Text(200, 100, "3", data.text.s)>>
         \o IfSet(data.barcode, <<Seg("BARCODE 100,200", data.barcode.s)>>)
         \o IfSet(data.qrCode, <<Seg("QRCODE 100,300", data.qrCode.s)>>)
         \o <<Cmd("PRINT 1,1")>>,
         NL)

\* The lines data.items.forEach pushes, one per item.
ItemLines(items) ==
    IF Truthy(items)
    THEN [i \in 1..items.n |-> Seg("item", "Coffee               $2.50 x1 $2.50")]
    ELSE <<>>

\* The array `commands` of generateESCCommands before it is joined.
ESCPieces(data, day) ==
    <<Cmd("ESC @"), Cmd("ESC a 1"), Cmd("ESC ! 16"),
      Seg("", OrDefault(data.storeName, "STORE RECEIPT")),
      Cmd("ESC ! 0"), NL,
      Seg("", OrDefault(data.storeAddress, "123 Main Street")), NL,
      Seg("Receipt #: ", OrDefault(data.receiptNumber, "000001")), NL,
      Seg("Date: ", OrDefault(data.date, ToLocaleDateString(day))), NL,
      Cmd("ESC a 0"), Cmd("--------------------------------"), NL>>
    \o ItemLines(data.items)
    \o <<Cmd("--------------------------------"), NL, Cmd("ESC a 2"),
         Seg("TOTAL: $", OrDefault(data.total, "0.00")),
         Cmd("\n\n\n\n"), Cmd("ESC i")>>

generateESCCommands(data, day) == Join(ESCPieces(data, day), NL)

generateZPLCommands(data) ==
    Join(<<Cmd("^XA"), Cmd("^FO50,50"), Cmd("^A0N,50,50"), Seg("^FD^FS", data.text.s)>>
         \o IfSet(data.partNumber,
                  <<Cmd("^FO50,120"), Cmd("^A0N,30,30"),
                    Seg("^FDPart: ^FS", data.partNumber.s)>>)
         \o IfSet(data.serialNumber,
                  <<Cmd("^FO50,160"), Cmd("^BY3"), Cmd("^BCN,100,Y,N,N"),
                    Seg("^FD^FS", data.serialNumber.s)>>)
         \o IfSet(data.qrCode,
                  <<Cmd("^FO50,280"), Cmd("^BQN,2,5"), Seg("^FD^FS", data.qrCode.s)>>)
         \o IfSet(data.location,
                  <<Cmd("^FO50,400"), Cmd("^A0N,25,25"),
                    Seg("^FDLoc: ^FS", data.location.s)>>)
         \o IfSet(data.date,
                  <<Cmd("^FO50,440"), Cmd("^A0N,25,25"),
                    Seg("^FDDate: ^FS", data.date.s)>>)
         \o <<Cmd("^XZ")>>,
         NL)

generateCPCLCommands(data) ==
    Join(<<Cmd("! 0 200 200 210 1"), Seg("T 7 0 0 0 ", data.text.s)>>
         \o IfSet(data.barcode, <<Seg("B 128 1 1 50 50 ", data.barcode.s)>>)
         \o IfSet(data.qrCode, <<Seg("B QR 50 100 M 2 U 5 ", data.qrCode.s)>>)
         \o <<Cmd("FORM"), Cmd("PRINT")>>,
         NL)

generateEPLCommands(data) ==
    Join(<<Cmd("N"), Cmd("q609"), Cmd("Q203,0"), Cmd("ZT"),
           Seg("A50,50,0,4,1,1,N", data.text.s)>>
         \o IfSet(data.barcode, <<Seg("B50,100,0,1,3,3,50,B", data.barcode.s)>>)
         \o IfSet(data.qrCode, <<Seg("b50,200,Q,s7,e7", data.qrCode.s)>>)
         \o <<Cmd("P1")>>,
         NL)

\* String.prototype.toUpperCase on the protocol names used here.
ProtocolUpperCase(p) ==
    CASE p = "zpl" -> "ZPL"
      [] p = "esc/pos" -> "ESC/POS"
      [] p = "auto" -> "AUTO"
      [] OTHER -> p

\* The protocol AUTO selects from the shape of the data.
AutoProtocol(data) ==
    IF Truthy(data.items) /\ Truthy(data.total) THEN "ESC/POS"
    ELSE IF Truthy(data.serialNumber) \/ Truthy(data.partNumber) THEN "ZPL"
         ELSE "TSPL"

\* The switch of generateUniversalPrintCommands.
RenderAs(protocol, data, size, day) ==
    CASE protocol = "TSPL"    -> generateTSPLCommands(data, size)
      [] protocol = "ESC/POS" -> generateESCCommands(data, day)
      [] protocol = "ZPL"     -> generateZPLCommands(data)
      [] protocol = "CPCL"    -> generateCPCLCommands(data)
      [] protocol = "EPL"     -> generateEPLCommands(data)
      [] OTHER                -> generateTSPLCommands(data, size)

generateUniversalPrintCommands(data, size, protocol, day) ==
    LET selected == IF protocol = "AUTO" THEN AutoProtocol(data) ELSE protocol
    IN  RenderAs(ProtocolUpperCase(selected), data, size, day)

Protocols ==
    {"AUTO", "TSPL", "ESC/POS", "ZPL", "CPCL", "EPL", "zpl", "esc/pos", "auto", "PDF"}

LabelSize == [width |-> 56, height |-> 31]

\* The data objects passed to the protocol renderers.
DataObjects ==
    [text : {Str("Widget")},
     barcode : {Undefined, Str("123456")},
     qrCode : {Undefined},
     items : {Undefined, Arr(0), Arr(1)},
     total : {Undefined, Num(0), Num(5)},
     storeName : {Undefined},
     storeAddress : {Undefined},
     receiptNumber : {Undefined},
     date : {Undefined, Str("31/10/2026")},
     serialNumber : {Undefined, Str(""), Str("SN-1")},
     partNumber : {Undefined, Str("PN-1")},
     location : {Undefined}]

\* detectPrinterProtocol. A device name is the sequence of its characters.

MaxWords == 3

\* The pieces device names are made of here.
Words ==
    {<<"Z", "e", "b", "r", "a">>,
     <<"Z", "D", "4", "2", "0">>,
     <<" ">>,
     <<"M", "U", "N", "B", "Y", "N">>,
     <<"L", "a", "b", "e", "l">>,
     <<"E", "p", "s", "o", "n">>,
     <<"T", "M", "-", "T", "2", "0">>,
     <<"H", "O", "N", "E", "Y", "W", "E", "L", "L">>,
     <<"m", "o", "b", "i", "l", "e">>}

RECURSIVE Concat(_)
\* The characters of a sequence of words, in a row.
Concat(ws) == IF ws = <<>> THEN <<>> ELSE Head(ws) \o Concat(Tail(ws))

\* The device names: up to MaxWords words in any order.
DeviceNames == {Concat(ws) : ws \in UNION {[1..n -> Words] : n \in 1..MaxWords}}

UpperLetters ==
    <<"A", "B", "C", "D", "E", "F", "G", "H", "I", "J", "K", "L", "M", "N", "O", "P",
      "Q", "R", "S", "T", "U", "V", "W", "X", "Y", "Z">>

LowerLetters ==
    <<"a", "b", "c", "d", "e", "f", "g", "h", "i", "j", "k", "l", "m", "n", "o", "p",
      "q", "r", "s", "t", "u", "v", "w", "x", "y", "z">>

\* The lower-case form of each character a name can hold.
LowerCaseOf ==
    [c \in UNION {{w[i] : i \in DOMAIN w} : w \in Words} |->
        IF \E k \in DOMAIN UpperLetters : UpperLetters[k] = c
        THEN LowerLetters[CHOOSE k \in DOMAIN UpperLetters : UpperLetters[k] = c]
        ELSE c]

\* String.prototype.toLowerCase, character by character.
ToLowerCase(str) == [i \in DOMAIN str |-> LowerCaseOf[str[i]]]

\* String.prototype.includes.
Includes(str, sub) ==
    \E i \in 1..(Len(str) - Len(sub) + 1) : SubSeq(str, i, i + Len(sub) - 1) = sub

IncludesAny(str, subs) == \E sub \in subs : Includes(str, sub)

TSPLKeywords ==
    {<<"t", "s", "p", "l">>,
     <<"l", "a", "b", "e", "l">>,
     <<"m", "u", "n", "b", "y", "n">>,
     <<"q", "n">>,
     <<"g", "p", "r", "i", "n", "t", "e", "r">>,
     <<"g", "p", "-">>}

ESCPOSKeywords ==
    {<<"e", "s", "c">>,
     <<"p", "o", "s">>,
     <<"r", "e", "c", "e", "i", "p", "t">>,
     <<"t", "h", "e", "r", "m", "a", "l">>,
     <<"e", "p", "s", "o", "n">>,
     <<"s", "t", "a", "r">>,
     <<"c", "i", "t", "i", "z", "e", "n">>,
     <<"b", "i", "x", "o", "l", "o", "n">>}

ZPLKeywords ==
    {<<"z", "p", "l">>,
     <<"z", "e", "b", "r", "a">>,
     <<"i", "n", "d", "u", "s", "t", "r", "i", "a", "l">>,
     <<"w", "a", "r", "e", "h", "o", "u", "s", "e">>}

CPCLKeywords ==
    {<<"c", "p", "c", "l">>,
     <<"m", "o", "b", "i", "l", "e">>,
     <<"p", "o", "r", "t", "a", "b", "l", "e">>,
     <<"h", "a", "n", "d", "h", "e", "l", "d">>}

EPLKeywords ==
    {<<"e", "p", "l">>,
     <<"e", "l", "t", "r", "o", "n">>,
     <<"d", "a", "t", "a", "m", "a", "x">>,
     <<"h", "o", "n", "e", "y", "w", "e", "l", "l">>}

\* Mutant: the name is matched as typed.
detectPrinterProtocolCaseSensitive(deviceName, manufacturer) ==
    LET name == deviceName
    IN  IF IncludesAny(name, TSPLKeywords) THEN "TSPL"
        ELSE IF IncludesAny(name, ESCPOSKeywords) THEN "ESC/POS"
        ELSE IF IncludesAny(name, ZPLKeywords) THEN "ZPL"
        ELSE IF IncludesAny(name, CPCLKeywords) THEN "CPCL"
        ELSE IF IncludesAny(name, EPLKeywords) THEN "EPL"
        ELSE "TSPL"

\* detectPrinterProtocol(deviceName, manufacturer): the manufacturer is
\* lower-cased and then not looked at.
detectPrinterProtocol(deviceName, manufacturer) ==
    LET name == ToLowerCase(deviceName)
    IN  IF IncludesAny(name, TSPLKeywords) THEN "TSPL"
        ELSE IF IncludesAny(name, ESCPOSKeywords) THEN "ESC/POS"
        ELSE IF IncludesAny(name, ZPLKeywords) THEN "ZPL"
        ELSE IF IncludesAny(name, CPCLKeywords) THEN "CPCL"
        ELSE IF IncludesAny(name, EPLKeywords) THEN "EPL"
        ELSE "TSPL"

Manufacturers == {<<>>, <<"Z", "e", "b", "r", "a">>}

\* The generator functions that return command strings.
Renderers ==
    {"generateComplexLabel", "generate56x31Label", "generateESCCommands",
     "generateUniversalPrintCommands"}

\* The generator functions, by name, as the clock stands at `day`.
Generate(fn, arg, day) ==
    CASE fn = "generateComplexLabel" -> generateComplexLabel(arg)
      [] fn = "generate56x31Label" ->
            generate56x31Label(arg.text, arg.barcode, arg.qrCode)
      [] fn = "generateESCCommands" -> generateESCCommands(arg, day)
      [] fn = "generateUniversalPrintCommands" ->
            generateUniversalPrintCommands(arg.data, arg.size, arg.protocol, day)
      [] fn = "detectPrinterProtocol" ->
            detectPrinterProtocol(arg.deviceName, arg.manufacturer)

\* No generator call has been made: a behaviour follows one call.
FirstCall == genCall.fn = "none"

\* Some code calls a generator function.
CallGenerator(fn, arg) ==
    /\ genCall' = [fn |-> fn, arg |-> arg]
    /\ genResult' = Returned(Generate(fn, arg, today))
    /\ genRepeat' = NotCalled
    /\ UNCHANGED <<today, native, caller, queue>>

\* The calls, their arguments drawn from the sets above.
CallGenerateComplexLabel ==
    /\ FirstCall
    /\ \E labelData \in LabelDatas : CallGenerator("generateComplexLabel", labelData)

CallGenerate56x31Label ==
    /\ FirstCall
    /\ \E text \in {Str(""), Str("Hello World"), Str(LongHeader)},
          barcode \in Optional("5012345678900"), qrCode \in Optional("INSTALABEL") :
          CallGenerator("generate56x31Label",
                        [text |-> text, barcode |-> barcode, qrCode |-> qrCode])

CallGenerateESCCommands ==
    /\ FirstCall
    /\ \E data \in DataObjects : CallGenerator("generateESCCommands", data)

CallGenerateUniversalPrintCommands ==
    /\ FirstCall
    /\ \E data \in DataObjects, protocol \in Protocols :
          CallGenerator("generateUniversalPrintCommands",
                        [data |-> data, size |-> LabelSize, protocol |-> protocol])

CallDetectPrinterProtocol ==
    /\ FirstCall
    /\ \E deviceName \in DeviceNames, manufacturer \in Manufacturers :
          CallGenerator("detectPrinterProtocol",
                        [deviceName |-> deviceName, manufacturer |-> manufacturer])

\* The same function is called again with the same arguments.
CallAgain ==
    /\ genCall.fn # "none"
    /\ genRepeat' = Returned(Generate(genCall.fn, genCall.arg, today))
    /\ UNCHANGED <<genCall, genResult, today, native, caller, queue>>

\* Midnight passes.
DayPasses ==
    /\ today.d = 1
    /\ today' = [today EXCEPT !.d = 2]
    /\ UNCHANGED <<genCall, genResult, genRepeat, native, caller, queue>>

GeneratorSpecInit ==
    /\ Init
    /\ adapterPresent
    /\ bleSupported

GeneratorNext ==
    \/ CallGenerateComplexLabel
    \/ CallGenerate56x31Label
    \/ CallGenerateESCCommands
    \/ CallGenerateUniversalPrintCommands
    \/ CallDetectPrinterProtocol
    \/ CallAgain
    \/ DayPasses

GeneratorSpec == GeneratorSpecInit /\ [][GeneratorNext]_vars

----------------------------------------------------------------------------
\* A step of either connect method, of disconnect, of a send method.
AnyConnect ==
    \E a \in Address, r \in BOOLEAN : ConnectToDevice(a, r) \/ ConnectDual(a, r)

AnyDisconnect == \E r \in {"none", "stream", "socket", "gatt"} : Disconnect(r)

AnyPrint == \E m \in PrintMethods, r \in BOOLEAN : PrintCommand(m, r)

\* The Disconnected state: no technology and no handle held.
Disconnected ==
    /\ currentConnectionType = "UNKNOWN"
    /\ classicSocket = Null
    /\ classicOutputStream = Null
    /\ bleGatt = Null
    /\ bleWriteCharacteristic = Null

\* C1: the Classic socket and the GATT client are never both held.
AtMostOneTransport == ~(classicSocket # Null /\ bleGatt # Null)

\* C2: a connect made while an earlier connection is held closes and clears it
\* first, so every open socket is referred to by a field or by the thread
\* connecting it, and every open GATT client is the one in bleGatt.
NoHandleLeftOpen ==
    /\ \A s \in DOMAIN sockets : sockets[s].st = "open" => s \in SocketRefs
    /\ \A g \in DOMAIN gatts : g = bleGatt

\* C3: a disconnect, also one whose close call raises, leaves the type UNKNOWN
\* and the socket, stream, GATT client and characteristic fields cleared.
DisconnectResetsState == [][AnyDisconnect => Disconnected']_vars

\* C4: the promise of a disconnect is resolved, never rejected.
DisconnectAlwaysResolves ==
    [][AnyDisconnect => (last'.op = "disconnect" /\ last'.st = "resolved")]_vars

\* C5: a disconnect made when no connect was ever called resolves, settling
\* its promise once, and leaves the status {type: UNKNOWN, connected: false}.
DisconnectNeverConnected ==
    [][(AnyDisconnect /\ ~connectCalled) =>
          /\ last' = Resolve(NewPromise("disconnect"))
          /\ GetConnectionStatus'.type = "UNKNOWN"
          /\ GetConnectionStatus'.connected = FALSE]_vars

DisconnectNeverConnectedWitness ==
    /\ ~connectCalled
    /\ last.op = "disconnect"
    /\ last.st = "resolved"
    /\ GetConnectionStatus.type = "UNKNOWN"
    /\ ~GetConnectionStatus.connected

\* C6: a connect attempt that starts in the Disconnected state with nothing in
\* flight and is rejected, by the method itself or by its thread with no other
\* call in between, leaves the manager Disconnected; so does any number of
\* such attempts one after another.
FailedConnectLeavesDisconnected ==
    [][/\ (AnyConnect /\ Disconnected /\ threads = {} /\ threads' = {}
             /\ last'.st = "rejected") => Disconnected'
       /\ \A t \in threads :
            (/\ ClassicThreadConnect(t, FALSE)
             /\ threads = {t}
             /\ t.id = calls
             /\ t.at.type = "UNKNOWN"
             /\ ~t.at.sock /\ ~t.at.stream /\ ~t.at.gatt /\ ~t.at.chr)
            => Disconnected']_vars

\* C7: while the latest resolved connect was to a CLASSIC device, the status
\* has classicConnected and not bleConnected; while it was to a BLE device, it
\* has bleConnected and not classicConnected.
StatusAfterConnect ==
    /\ established = "CLASSIC" =>
          (GetConnectionStatus.classicConnected /\ ~GetConnectionStatus.bleConnected)
    /\ established = "BLE" =>
          (GetConnectionStatus.bleConnected /\ ~GetConnectionStatus.classicConnected)

\* C8: a send made with type CLASSIC and no stored socket or stream, or with
\* type BLE and no write characteristic, is rejected and writes nothing.
SendWithoutHandleRejected ==
    [][/\ \A t \in threads : \A e \in BOOLEAN :
            (/\ PrintThreadRun(t, e)
             /\ t.at.type = "CLASSIC"
             /\ ~(t.at.sock /\ t.at.stream))
            => (last'.st = "rejected" /\ last'.wrote = "none")
       /\ (AnyPrint /\ currentConnectionType = "BLE"
             /\ bleWriteCharacteristic = Null)
            => (threads' = threads /\ last'.op = "print"
                  /\ last'.st = "rejected" /\ last'.wrote = "none")]_vars

\* C9: a send made while the status has connected = false is rejected with
\* PRINT_ERROR at once, starts no write thread and writes nothing.
SendWhileDisconnectedRejected ==
    [][(AnyPrint /\ ~GetConnectionStatus.connected) =>
          /\ last' = Reject(NewPromise("print"), "PRINT_ERROR")
          /\ threads' = threads
          /\ sockets' = sockets
          /\ gatts' = gatts]_vars

SendWhileDisconnectedWitness ==
    /\ connectCalled
    /\ classicSocket # Null
    /\ ~GetConnectionStatus.connected
    /\ last.op = "print"
    /\ last.st = "rejected"
    /\ last.code = "PRINT_ERROR"
    /\ last.wrote = "none"

\* C10: a send made after a connect to a DUAL device has resolved and the write
\* characteristic is known goes to a transport: it starts the Classic write or
\* resolves having written to the characteristic.
DualSendIsRouted ==
    [][(AnyPrint /\ established = "DUAL" /\ bleWriteCharacteristic # Null) =>
          \/ threads' # threads
          \/ (last'.op = "print" /\ last'.st = "resolved"
                /\ last'.wrote = "ble")]_vars

\* C11: a connect to a device whose detected technology is UNKNOWN is rejected
\* with CONNECTION_ERROR by the method itself; it creates no socket and no GATT
\* client, starts no thread and stores no handle.
UnknownTechnologyRejected ==
    [][\A a \in Address, r \in BOOLEAN :
          (/\ ConnectToDevice(a, r) \/ ConnectDual(a, r)
           /\ adapterPresent
           /\ ValidAddress(a)
           /\ GetDeviceTechnology(a) = "UNKNOWN")
          => /\ last' = Reject(NewPromise("connect"), "CONNECTION_ERROR")
             /\ sockets' = sockets
             /\ gatts' = gatts
             /\ threads' = threads
             /\ classicSocket' = classicSocket
             /\ bleGatt' = bleGatt]_vars

UnknownTechnologyRejectedWitness ==
    /\ deviceTechnologyCache["u"] = "UNKNOWN"
    /\ currentConnectionType = "UNKNOWN"
    /\ last = Reject(NewPromise("connect"), "CONNECTION_ERROR")
    /\ bleGatt # Null
    /\ gatts[bleGatt].link = "connected"

\* C12: one connectToDevice call of the caller makes at most 3 native connect
\* attempts, one at a time; an attempt after the first is made only when the
\* previous one was rejected and the 1000 ms pause has passed; a resolved attempt
\* ends the call with connectedDevice set to the device; the third rejection
\* ends the call at once with connectedDevice null and the call rejected.
ConnectRetryDiscipline ==
    [][/\ nativeInFlight' > nativeInFlight
          => /\ nativeInFlight = 0
             /\ attemptsMade' <= 3
             /\ attemptsMade' > 1
                   => /\ nativeResult \in ConnectErrors
                      /\ connectPc = "pause"
                      /\ pauseElapsed >= 1000
       /\ (connectPc = "awaitConnect" /\ connectPc' # "awaitConnect"
              /\ nativeResult = "resolved")
          => /\ connectedDevice' = device
             /\ connectOutcome' = "resolved"
             /\ connectPc' = "idle"
             /\ nativeInFlight' = 0
       /\ (connectPc = "awaitConnect" /\ connectPc' # "awaitConnect"
              /\ nativeResult # "resolved" /\ attemptsMade = 3)
          => /\ connectedDevice' = NoDevice
             /\ connectOutcome' = "rejected"
             /\ connectPc' = "idle"
             /\ isConnecting' = FALSE
             /\ nativeInFlight' = 0]_vars

\* A second call, made while connected to another device, gave up after its
\* third rejection.
ConnectRetryDisciplineWitness ==
    /\ requests = 2
    /\ attemptsMade = 3
    /\ connectOutcome = "rejected"
    /\ connectPc = "idle"
    /\ connectedDevice = NoDevice
    /\ lastError = "CLASSIC_CONNECTION_ERROR"

\* C13: in one run of printLabels a label send starts only when no send is
\* outstanding, and every send after the first of the run starts only when the
\* 500 ms delay timer, armed after the previous send, has fired.
DelayBetweenLabels ==
    [][sent' > sent
          => /\ printsInFlight = 0
             /\ sent > 0 => (printPc = "delay" /\ delayElapsed >= 500)]_vars

\* The pieces of a command string that print text t at vertical offset y.
TextsAt(out, y, t) ==
    {i \in DOMAIN out : out[i].cmd = "TEXT" /\ out[i].y = y /\ out[i].text = t}

\* C14 as stated: the complex-label renderer emits the initials line as its own
\* TEXT command (at offset 110) exactly when the field initialsLine is present
\* and the field printedLine is not present.
InitialsEmittedWhenFieldPresent ==
    genCall.fn = "generateComplexLabel"
    => LET d == genCall.arg
       IN  /\ (d.initialsLine.t # "undefined" /\ d.printedLine.t = "undefined")
              <=> TextsAt(genResult.value, 110, d.initialsLine.s) # {}
           /\ \A i \in DOMAIN genResult.value : genResult.value[i].y = 110
                 => genResult.value[i].text = d.initialsLine.s

\* C14 amended: the initials line is emitted as its own TEXT command at offset
\* 110, once, exactly when initialsLine is a non-empty string and printedLine is
\* left out or empty, whatever the other fields are; nothing else is at 110.
InitialsEmittedWhenNonEmpty ==
    genCall.fn = "generateComplexLabel"
    => LET d == genCall.arg
           initials == d.initialsLine.t = "string" /\ d.initialsLine.s # ""
           printed  == d.printedLine.t = "string" /\ d.printedLine.s # ""
       IN  /\ (initials /\ ~printed)
                 => Cardinality(TextsAt(genResult.value, 110, d.initialsLine.s)) = 1
           /\ ~(initials /\ ~printed)
                 => \A i \in DOMAIN genResult.value : genResult.value[i].y # 110

\* An empty printedLine beside initials: the initials are emitted.
InitialsEmittedWitness ==
    /\ genCall.fn = "generateComplexLabel"
    /\ genCall.arg.initialsLine = Str("Initials: NG")
    /\ genCall.arg.printedLine = Str("")
    /\ genCall.arg.ingredientsLine = Str("Contains: milk")
    /\ TextsAt(genResult.value, 110, "Initials: NG") # {}

\* C15: every renderer is deterministic: a second call with the same arguments
\* returns the same command string, whenever it is made.
RenderersDeterministic ==
    (genCall.fn \in Renderers /\ genRepeat.done) => genRepeat.value = genResult.value

\* A command string whose lines are joined with "\n": a line break between any
\* two lines and nowhere else.
NewlineJoined(out) ==
    /\ Len(out) % 2 = 1
    /\ \A i \in DOMAIN out : (out[i] = NL) <=> (i % 2 = 0)

\* C16: the ESC/POS renderer returns its control sequences and text segments
\* concatenated with nothing between them; the TSPL, ZPL, CPCL and EPL renderers
\* return their command lines joined with a line break.
SeparatorByProtocol ==
    /\ genCall.fn = "generateESCCommands"
          => \E day \in Days :
                genResult.value = ESCPieces(genCall.arg, day)
    /\ (/\ genCall.fn = "generateUniversalPrintCommands"
        /\ genCall.arg.protocol \in {"TSPL", "ZPL", "CPCL", "EPL"})
          => NewlineJoined(genResult.value)

\* The protocol C17 says AUTO selects: by which fields the data object has.
ProtocolByFields(data) ==
    IF data.items.t # "undefined" /\ data.total.t # "undefined" THEN "ESC/POS"
    ELSE IF data.serialNumber.t # "undefined" \/ data.partNumber.t # "undefined"
         THEN "ZPL"
         ELSE "TSPL"

\* C17: with protocol AUTO the returned string is the output of the ESC/POS
\* renderer when the data has an items and a total field, whatever their
\* values, else of the ZPL renderer when it has a serialNumber or a partNumber,
\* else of the TSPL renderer.
AutoSelectsByFields ==
    (genCall.fn = "generateUniversalPrintCommands" /\ genCall.arg.protocol = "AUTO")
    => \E day \in Days :
          genResult.value = RenderAs(ProtocolByFields(genCall.arg.data),
                                     genCall.arg.data, genCall.arg.size, day)

\* The protocol families with a keyword somewhere in the name, in any letter case.
FamiliesIn(deviceName) ==
    LET name == ToLowerCase(deviceName)
    IN  {f \in {"TSPL", "ESC/POS", "ZPL", "CPCL", "EPL"} :
            IncludesAny(name, CASE f = "TSPL"    -> TSPLKeywords
                                [] f = "ESC/POS" -> ESCPOSKeywords
                                [] f = "ZPL"     -> ZPLKeywords
                                [] f = "CPCL"    -> CPCLKeywords
                                [] OTHER         -> EPLKeywords)}

\* C18: a device name with keywords of exactly one protocol family is classified
\* as that family, whatever the letter case and wherever the keyword stands
\* ("Zebra ZD420" is ZPL, "MUNBYN Label" TSPL, "Epson TM-T20" ESC/POS); a name
\* with no keyword is classified as TSPL.
DetectsTheOneFamily ==
    genCall.fn = "detectPrinterProtocol"
    => LET name     == genCall.arg.deviceName
           families == FamiliesIn(name)
       IN  /\ Cardinality(families) = 1 => genResult.value \in families
           /\ families = {} => genResult.value = "TSPL"
           /\ name = <<"Z", "e", "b", "r", "a", " ", "Z", "D", "4", "2", "0">>
                 => genResult.value = "ZPL"
           /\ name = <<"M", "U", "N", "B", "Y", "N", " ", "L", "a", "b", "e", "l">>
                 => genResult.value = "TSPL"
           /\ name = <<"E", "p", "s", "o", "n", " ", "T", "M", "-", "T", "2", "0">>
                 => genResult.value = "ESC/POS"

\* "Zebra ZD420" was classified (as ZPL).
DetectsTheOneFamilyWitness ==
    /\ genCall.fn = "detectPrinterProtocol"
    /\ genCall.arg.deviceName
          = <<"Z", "e", "b", "r", "a", " ", "Z", "D", "4", "2", "0">>
    /\ genResult.value = "ZPL"

\* C19: when the active connection is lost, by a BLE state change to
\* disconnected on the current GATT client or by an I/O error during a Classic
\* or a BLE send, the status becomes connected = false, type UNKNOWN; and
\* connected turns true again only in a connect call.
ConnectionLossDisconnects ==
    [][/\ (\/ \E g \in DOMAIN gatts : g = bleGatt /\ OnDisconnected(g)
           \/ \E t \in threads : PrintThreadRun(t, TRUE)
           \/ \E m \in PrintMethods : PrintCommand(m, TRUE))
          => /\ GetConnectionStatus'.connected = FALSE
             /\ GetConnectionStatus'.type = "UNKNOWN"
       /\ (~GetConnectionStatus.connected /\ GetConnectionStatus'.connected)
          => AnyConnect]_vars

\* C20: for the current BLE connection, also one made after an earlier BLE
\* connection with no disconnect between, services are discovered only after
\* the client connected, a write characteristic is set only once that client's
\* services are discovered and is that client's, and a send made before that
\* discovery is rejected and writes nothing.
BleDiscoveryOrder ==
    [][/\ \A g \in DOMAIN gatts' :
             gatts'[g].svc = "done" => gatts'[g].link # "connecting"
       /\ (bleGatt' # Null /\ bleWriteCharacteristic' # Null)
          => /\ bleWriteCharacteristic' = bleGatt'
             /\ gatts'[bleGatt'].svc = "done"
       /\ (/\ AnyPrint
           /\ currentConnectionType = "BLE"
           /\ bleGatt # Null
           /\ gatts[bleGatt].svc # "done")
          => /\ last'.st = "rejected"
             /\ last'.wrote = "none"]_vars

\* C21: while a connect attempt is pending (its promise not yet settled), the
\* recorded connection type is the technology that attempt recorded when it
\* started: no other connect, disconnect or BLE callback changes it.
TechnologyFixedDuringAttempt ==
    \A t \in threads : t.kind = "connect" => currentConnectionType = t.tech

\* C22: a connect to a DUAL device triggers the BLE connection first; it starts
\* a Classic connect exactly when that trigger raised, and when the trigger
\* returned nothing starts a Classic connect later, not even the callback that
\* reports the BLE connection as failed.
DualFallsBackOnlyOnRaise ==
    [][/\ \A a \in Address, r \in BOOLEAN :
            (/\ ConnectToDevice(a, r) \/ ConnectDual(a, r)
             /\ adapterPresent /\ ValidAddress(a)
             /\ GetDeviceTechnology(a) = "DUAL")
            => IF r
               THEN /\ \E t \in threads' \ threads :
                         /\ t.kind = "connect"
                         /\ sockets'[t.sock] = [dev |-> a, st |-> "connecting"]
                    /\ gatts' = gatts /\ bleGatt' = bleGatt
               ELSE /\ threads' = threads /\ sockets' = sockets
                    /\ bleSupported
                         => /\ bleGatt' \notin DOMAIN gatts
                            /\ gatts'[bleGatt'].dev = a
       /\ (\E t \in threads' : t.kind = "connect" /\ \A u \in threads : u.id # t.id)
            => AnyConnect
       /\ \A g \in DOMAIN gatts :
            OnDisconnected(g) => threads' = threads /\ sockets' = sockets]_vars

\* A connect to the DUAL device resolved on the BLE trigger, the BLE connection
\* then failed, and no Classic connect is running or was made.
DualFallsBackOnlyOnRaiseWitness ==
    /\ last.op = "connect" /\ last.st = "resolved"
    /\ \E g \in DOMAIN gatts : gatts[g].dev = "d" /\ gatts[g].link = "disconnected"
    /\ threads = {}
    /\ classicSocket = Null
    /\ sockets = <<>>

AnyListing ==
    \/ \E r \in {"none", "bonded", "scan"} : ScanForDevices(r)
    \/ \E r \in {"none", "bonded"} : GetPairedDevices(r)

\* C23: once a technology is cached for an address it stays: every later
\* detection for that address, in a listing or in a connect, returns it,
\* whatever was called in between and whatever type the platform reports now.
CacheNeverChanges ==
    [][/\ \A a \in Address :
            deviceTechnologyCache[a] # "none"
            => deviceTechnologyCache'[a] = deviceTechnologyCache[a]
       /\ (calls' # calls /\ connectCalled' /\ adapterPresent)
            => \A a \in Address :
                 (/\ deviceTechnologyCache[a] # "none"
                  /\ \E r \in BOOLEAN : ConnectToDevice(a, r) \/ ConnectDual(a, r))
                 => currentConnectionType' = deviceTechnologyCache[a]
       /\ (calls' # calls /\ last'.op \in {"scan", "paired"}
           /\ last'.st = "resolved" /\ AnyListing)
            => \A a \in BondedDevices :
                 deviceTechnologyCache[a] # "none"
                 => deviceList'[a] = deviceTechnologyCache[a]]_vars

\* The first call listed the devices (DUAL for device d), the platform then
\* came to report another type for d, and the second call, a connect to d,
\* still took it as DUAL and opened a GATT client.
CacheNeverChangesWitness ==
    /\ calls = 2
    /\ typeChangedAt = 1
    /\ deviceList["d"] = "DUAL"
    /\ reportedType["d"] = "DEVICE_TYPE_CLASSIC"
    /\ currentConnectionType = "DUAL"
    /\ bleGatt # Null /\ gatts[bleGatt].dev = "d"
    /\ deviceTechnologyCache["d"] = "DUAL"

\* C24: when a label send of a printLabels run is rejected the run ends at once:
\* it is reported as failed, no send is started then or afterwards, the print
\* queue is what it was when the run started (only a successful run changes
\* it), and isPrinting is false.
PrintFailureEndsRun ==
    [][/\ (printPc = "awaitPrint" /\ printsInFlight = 0 /\ printResult # "resolved")
            => /\ runOutcome' = "failed"
               /\ printPc' = "idle"
               /\ isPrinting' = FALSE
               /\ sent' = sent
               /\ printsInFlight' = 0
       /\ runOutcome = "failed" => (sent' = sent /\ runOutcome' = "failed")
       /\ printQueue' # printQueue => runOutcome' = "success"]_vars

\* The second label of a run was rejected with more labels left to send.
PrintFailureEndsRunWitness ==
    /\ runOutcome = "failed"
    /\ sent = 2
    /\ isPrinting = FALSE
    /\ Len(printQueue) = 2
    /\ printQueue[2].quantity = 2
    /\ Printable(printQueue[1]) /\ Printable(printQueue[2])

\* C25: when refreshConnectionStatus has got its answer, connectedDevice is
\* reset to null if getting the native status failed (the module is missing or
\* the call rejected) and if the status says connected = false.
RefreshAssumesDisconnected ==
    [][(/\ refreshPc = "awaitStatus" /\ refreshPc' = "idle"
        /\ statusOutcome \in {"missing", "rejected", "notConnected"})
          => connectedDevice' = NoDevice]_vars

\* C26: every x and y coordinate of a TEXT, BARCODE, QRCODE, PUTBMP or BOX
\* command the TSPL renderers emit is a whole number of dots, the centred
\* positions included.
IntegerCoordinates ==
    genCall.fn \in {"generateComplexLabel", "generate56x31Label"}
    => \A i \in DOMAIN genResult.value :
          genResult.value[i].cmd \in {"TEXT", "BARCODE", "QRCODE", "PUTBMP", "BOX"}
          => genResult.value[i].x2 % 2 = 0

\* Connect thread t is the only thread, one call was made since the connect
\* that started it, and the promise settled last is a resolved disconnect: a
\* disconnect ran, and returned, while the connect was in progress.
DisconnectedMeanwhile(t) ==
    /\ t.kind = "connect"
    /\ threads = {t}
    /\ calls = t.id + 1
    /\ last.op = "disconnect" /\ last.st = "resolved"

\* C27: when a disconnect ran while a Classic connect was in progress, then once
\* the connect thread has finished the manager holds no Classic socket and no
\* output stream, and no socket is left open.
DisconnectDuringConnectLeavesNothing ==
    [][\A t \in threads :
          (DisconnectedMeanwhile(t) /\ threads' = {})
          => /\ classicSocket' = Null
             /\ classicOutputStream' = Null
             /\ \A s \in DOMAIN sockets' : sockets'[s].st # "open"]_vars

\* C28: while a printLabels run is in progress, from its start until it has
\* cleared the queue or reported the error, isPrinting is true.
PrintingWhileRunInProgress == printPc # "idle" => isPrinting

\* C29: the status getConnectionStatus reports never has classicConnected or
\* bleConnected true together with connected false.
StatusConsistent ==
    (GetConnectionStatus.classicConnected \/ GetConnectionStatus.bleConnected)
    => GetConnectionStatus.connected

Settled(pr) == pr.n = 1 /\ pr.st \in {"resolved", "rejected"}

\* C30: every call of a manager method settles its promise exactly once. A call
\* either settles it before it returns or hands it, unsettled, to exactly one
\* thread; a thread settles it, once, in the step it ends with; nothing else
\* settles a promise.
SettlesExactlyOnce ==
    [][IF calls' = calls + 1
       THEN LET started == {t \in threads' : t.id = calls'}
            IN  IF started = {}
                THEN Settled(last') /\ threads' = threads
                ELSE /\ last' = last
                     /\ Cardinality(started) = 1
                     /\ threads' = threads \cup started
                     /\ \A t \in started : t.pr.n = 0 /\ t.pr.st = "pending"
       ELSE LET ended == {t \in threads : \A u \in threads' : u.id # t.id}
            IN  /\ \A u \in threads' : \E t \in threads : u.id = t.id /\ u.pr = t.pr
                /\ Cardinality(ended) <= 1
                /\ \A t \in ended : Settled(last') /\ last'.op = t.pr.op
                /\ ended = {} => last' = last]_vars

\* A connect to the DUAL device whose BLE trigger raised: the Classic thread has
\* ended and the promise is resolved, once.
SettlesExactlyOnceWitness ==
    /\ threads = {}
    /\ last.op = "connect" /\ last.st = "resolved" /\ last.n = 1
    /\ currentConnectionType = "DUAL"
    /\ classicOutputStream # Null
    /\ sockets[classicOutputStream].dev = "d"
    /\ bleGatt = Null

====
